---- MODULE Spec2Model ----
(***************************************************************************)
(* A model of the SummonMind validation service (src/main.py): the safe    *)
(* expression evaluator, the computed-field resolver with its depth guard, *)
(* and the /validate pipeline.                                             *)
(*                                                                         *)
(* Text is a sequence of one-character strings, so that searching it,      *)
(* parsing it as a number and rendering it as a template are computed.     *)
(***************************************************************************)
EXTENDS Integers, Sequences, FiniteSets, TLC

VARIABLES
    \* ---- evaluator harness (safe_eval called on one expression) ----
    sliceWrapped,  \* TRUE: the host's ast wraps a subscript key in ast.Index (Python 3.8)
    expr,          \* the source expression handed to safe_eval
    env,           \* the evaluation environment: names and the record behind 'data'
    evalPc,        \* "ready" | "done"
    evalResult,    \* the value or the error safe_eval ended with
    \* ---- one /validate request ----
    request,       \* the JSON payload: schema, rules, data
    pc,            \* position in validate_endpoint
    working,       \* the working record
    compIdx,       \* index of the computed field being resolved
    tmpl,          \* template text of the current resolve_computed_field call
    depth,         \* depth argument of the current resolve_computed_field call
    renders,       \* renders performed for the current computed field
    calls,         \* resolve_computed_field invocations for the current computed field
    resolved,      \* outcome of the current resolution: running, ok, or the error raised
    errors,        \* type errors / rule errors collected so far
    parsedRules,   \* rules accepted by Rule.parse_obj, in order
    ruleIdx,       \* index of the rule being parsed or executed
    response,      \* what the caller receives
    stagesRun,     \* stages that have executed for the current run
    handled,       \* indices (into request.rules) of rules parsed / executed
    run,           \* 1: the request as sent; 2: the same request re-sent on validatedData
    firstResult    \* validatedData of run 1

evalVars == <<sliceWrapped, expr, env, evalPc, evalResult>>
pipeVars == <<request, pc, working, compIdx, tmpl, depth, renders, calls, resolved, errors,
              parsedRules, ruleIdx, response, stagesRun, handled, run, firstResult>>
vars == <<evalVars, pipeVars>>

-----------------------------------------------------------------------------
(* Values of the host language that the program handles.                   *)

Val(t, i, d, s, l) == [t |-> t, i |-> i, d |-> d, s |-> s, l |-> l]
NoneV       == Val("none", 0, 1, <<>>, <<>>)
Absent      == Val("absent", 0, 1, <<>>, <<>>)
DictV       == Val("dict", 0, 1, <<>>, <<>>)
BoolV(b)    == Val("bool", IF b THEN 1 ELSE 0, 1, <<>>, <<>>)
IntV(n)     == Val("int", n, 1, <<>>, <<>>)
StrV(s)     == Val("str", 0, 1, s, <<>>)
ListV(l)    == Val("list", 0, 1, <<>>, l)

Abs(n) == IF n < 0 THEN -n ELSE n

RECURSIVE Gcd(_, _)
Gcd(a, b) == IF b = 0 THEN a ELSE Gcd(b, a % b)

\* a float is kept as the exact fraction i/d in lowest terms, d > 0
FloatV(n, d) ==
    LET g == Gcd(Abs(n), d)
    IN  Val("float", n \div g, d \div g, <<>>, <<>>)

IsNum(v) == v.t \in {"bool", "int", "float"}
IsIntLike(v) == v.t \in {"bool", "int"}

Ok(v)  == [err |-> "", v |-> v]
Err(e) == [err |-> e, v |-> NoneV]
IsOk(r) == r.err = ""

\* one-character strings in code-point order
Alphabet == <<" ", "-", ".", "0", "1", "2", "3", "4", "5", "6", "7", "8", "9",
              "A", "E", "F", "H", "L", "N", "R", "S", "T", "U", "W",
              "a", "c", "d", "e", "f", "g", "h", "i", "j", "k", "l", "n", "o",
              "r", "s", "t", "u", "w", "x", "y", "{", "}">>

Ord(c) == CHOOSE k \in 1..Len(Alphabet) : Alphabet[k] = c

RECURSIVE StrLess(_, _)
StrLess(a, b) ==
    IF b = <<>> THEN FALSE
    ELSE IF a = <<>> THEN TRUE
    ELSE IF Head(a) = Head(b) THEN StrLess(Tail(a), Tail(b))
    ELSE Ord(Head(a)) < Ord(Head(b))

-----------------------------------------------------------------------------
(* Syntax trees.  A source expression is the tree of the expression text   *)
(* before the parser has classified its words ("Atom") and literals        *)
(* ("Lit"); Parse gives the ast nodes that ast.parse builds from it.       *)

Node(kind, op, ops, id, c, kids) ==
    [kind |-> kind, op |-> op, ops |-> ops, id |-> id, c |-> c, kids |-> kids]

Atom(id)              == Node("Atom", "", <<>>, id, NoneV, <<>>)
Lit(c)                == Node("Lit", "", <<>>, "", c, <<>>)
Constant(c)           == Node("Constant", "", <<>>, "", c, <<>>)
Name(id)              == Node("Name", "", <<>>, id, NoneV, <<>>)
BinOp(l, op, r)       == Node("BinOp", op, <<>>, "", NoneV, <<l, r>>)
UnaryOp(op, e)        == Node("UnaryOp", op, <<>>, "", NoneV, <<e>>)
BoolOp(op, values)    == Node("BoolOp", op, <<>>, "", NoneV, values)
Compare(l, ops, cmps) == Node("Compare", "", ops, "", NoneV, <<l>> \o cmps)
Subscript(v, sl)      == Node("Subscript", "", <<>>, "", NoneV, <<v, sl>>)
Index(e)              == Node("Index", "", <<>>, "", NoneV, <<e>>)
ListNode(elts)        == Node("List", "", <<>>, "", NoneV, elts)
Attribute(v, attr)    == Node("Attribute", "", <<>>, attr, NoneV, <<v>>)
Call(f, args)         == Node("Call", "", <<>>, "", NoneV, <<f>> \o args)
IfExp(t, b, o)        == Node("IfExp", "", <<>>, "", NoneV, <<t, b, o>>)
BadSyntax             == Node("BadSyntax", "", <<>>, "", NoneV, <<>>)

\* the words the parser reads as constants; every other word is a Name
KeywordConstant(id) ==
    CASE id = "True"  -> BoolV(TRUE)
      [] id = "False" -> BoolV(FALSE)
      [] id = "None"  -> NoneV
      [] OTHER        -> Absent

RECURSIVE ParseNode(_, _)
ParseNode(src, wrap) ==
    CASE src.kind = "Atom" ->
            IF KeywordConstant(src.id) # Absent
            THEN Constant(KeywordConstant(src.id)) ELSE Name(src.id)
      [] src.kind = "Lit" -> Constant(src.c)
      [] src.kind = "Subscript" ->
            LET v  == ParseNode(src.kids[1], wrap)
                sl == ParseNode(src.kids[2], wrap)
            IN  Subscript(v, IF wrap THEN Index(sl) ELSE sl)
      [] OTHER ->
            [src EXCEPT !.kids = [k \in 1..Len(src.kids) |-> ParseNode(src.kids[k], wrap)]]

RECURSIVE HasBadSyntax(_)
HasBadSyntax(src) ==
    \/ src.kind = "BadSyntax"
    \/ \E k \in 1..Len(src.kids) : HasBadSyntax(src.kids[k])

-----------------------------------------------------------------------------
(* The operator table and the host's operators on values.                  *)

BinOps   == {"Add", "Sub", "Mult", "Div", "Mod", "Pow"}
UnaryOps == {"UAdd", "USub"}
CmpOps   == {"Eq", "NotEq", "Lt", "LtE", "Gt", "GtE"}
_allowed_ops == BinOps \cup UnaryOps \cup CmpOps

Numeric(n, d, isFloat) == IF isFloat THEN FloatV(n, d) ELSE IntV(n)
EitherFloat(a, b) == a.t = "float" \/ b.t = "float"

PyMod(a, b) == IF b > 0 THEN a % b ELSE -((-a) % (-b))

RECURSIVE Power(_, _)
Power(a, n) == IF n = 0 THEN 1 ELSE a * Power(a, n - 1)

\* results the model does not compute are marked, never guessed
Unmodelled == Err("Unmodelled")

ApplyBin(op, a, b) ==
    CASE op = "Add" ->
            IF IsNum(a) /\ IsNum(b)
            THEN Ok(Numeric(a.i * b.d + b.i * a.d, a.d * b.d, EitherFloat(a, b)))
            ELSE IF a.t = "str" /\ b.t = "str" THEN Ok(StrV(a.s \o b.s))
            ELSE IF a.t = "list" /\ b.t = "list" THEN Ok(ListV(a.l \o b.l))
            ELSE Err("TypeError")
      [] op = "Sub" ->
            IF IsNum(a) /\ IsNum(b)
            THEN Ok(Numeric(a.i * b.d - b.i * a.d, a.d * b.d, EitherFloat(a, b)))
            ELSE Err("TypeError")
      [] op = "Mult" ->
            IF IsNum(a) /\ IsNum(b)
            THEN Ok(Numeric(a.i * b.i, a.d * b.d, EitherFloat(a, b)))
            ELSE IF (a.t \in {"str", "list"} /\ IsIntLike(b))
                    \/ (b.t \in {"str", "list"} /\ IsIntLike(a)) THEN Unmodelled
            ELSE Err("TypeError")
      [] op = "Div" ->
            IF IsNum(a) /\ IsNum(b)
            THEN IF b.i = 0 THEN Err("ZeroDivisionError")
                 ELSE IF b.i > 0 THEN Ok(FloatV(a.i * b.d, a.d * b.i))
                 ELSE Ok(FloatV(-(a.i * b.d), a.d * (-b.i)))
            ELSE Err("TypeError")
      [] op = "Mod" ->
            IF IsIntLike(a) /\ IsIntLike(b)
            THEN IF b.i = 0 THEN Err("ZeroDivisionError") ELSE Ok(IntV(PyMod(a.i, b.i)))
            ELSE IF IsNum(a) /\ IsNum(b) THEN Unmodelled
            \* text without a format directive, applied to one plain argument
            ELSE IF a.t = "str" THEN (IF IsNum(b) \/ b.t \in {"str", "none"}
                                      THEN Err("TypeError") ELSE Unmodelled)
            ELSE Err("TypeError")
      [] op = "Pow" ->
            IF IsIntLike(a) /\ IsIntLike(b) /\ b.i >= 0 THEN Ok(IntV(Power(a.i, b.i)))
            ELSE IF IsNum(a) /\ IsNum(b) THEN Unmodelled
            ELSE Err("TypeError")
      [] OTHER -> Err("Unsupported")

ApplyUnary(op, a) ==
    CASE op = "UAdd" -> IF IsNum(a) THEN Ok(Numeric(a.i, a.d, a.t = "float"))
                        ELSE Err("TypeError")
      [] op = "USub" -> IF IsNum(a) THEN Ok(Numeric(-a.i, a.d, a.t = "float"))
                        ELSE Err("TypeError")
      [] OTHER -> Err("Unsupported")

ValuesEqual(a, b) ==
    IF IsNum(a) /\ IsNum(b) THEN a.i * b.d = b.i * a.d
    ELSE IF a.t = "str" /\ b.t = "str" THEN a.s = b.s
    ELSE IF a.t = b.t /\ a.t \in {"none", "dict"} THEN TRUE
    ELSE FALSE

ValuesLess(a, b) ==
    IF IsNum(a) /\ IsNum(b) THEN a.i * b.d < b.i * a.d ELSE StrLess(a.s, b.s)

Ordered(a, b) == (IsNum(a) /\ IsNum(b)) \/ (a.t = "str" /\ b.t = "str")

ApplyCmp(op, a, b) ==
    IF a.t = "list" /\ b.t = "list" THEN Unmodelled
    ELSE CASE op = "Eq"    -> Ok(BoolV(ValuesEqual(a, b)))
           [] op = "NotEq" -> Ok(BoolV(~ValuesEqual(a, b)))
           [] ~Ordered(a, b) -> Err("TypeError")
           [] op = "Lt"    -> Ok(BoolV(ValuesLess(a, b)))
           [] op = "LtE"   -> Ok(BoolV(~ValuesLess(b, a)))
           [] op = "Gt"    -> Ok(BoolV(ValuesLess(b, a)))
           [] op = "GtE"   -> Ok(BoolV(~ValuesLess(a, b)))
           [] OTHER        -> Err("Unsupported")

\* the fields a mapping holds
Keys(rec) == {f \in DOMAIN rec : rec[f] # Absent}

Truthy(v, rec) ==
    CASE v.t \in {"bool", "int", "float"} -> v.i # 0
      [] v.t = "str"  -> v.s # <<>>
      [] v.t = "list" -> v.l # <<>>
      [] v.t = "dict" -> Keys(rec) # {}
      [] OTHER        -> FALSE

\* position of index k in a sequence of length n, as the host counts it
SeqPos(k, n) == IF k < 0 THEN n + k + 1 ELSE k + 1

\* val[key]
GetItem(val, key, rec) ==
    CASE val.t = "dict" ->
            IF key.t \in {"list", "dict"} THEN Err("TypeError")
            ELSE IF key.t = "str" /\ Len(key.s) = 1 /\ key.s[1] \in Keys(rec)
            THEN Ok(rec[key.s[1]])
            ELSE Err("KeyError")
      [] val.t = "str" ->
            IF ~IsIntLike(key) THEN Err("TypeError")
            ELSE IF SeqPos(key.i, Len(val.s)) \in 1..Len(val.s)
            THEN Ok(StrV(<<val.s[SeqPos(key.i, Len(val.s))]>>))
            ELSE Err("IndexError")
      [] val.t = "list" ->
            IF ~IsIntLike(key) THEN Err("TypeError")
            ELSE IF SeqPos(key.i, Len(val.l)) \in 1..Len(val.l)
            THEN Ok(val.l[SeqPos(key.i, Len(val.l))])
            ELSE Err("IndexError")
      [] OTHER -> Err("TypeError")

-----------------------------------------------------------------------------
(* _eval_node and safe_eval.  An environment e holds e.names, the mapping  *)
(* given to safe_eval, and e.rec, the record that the value DictV denotes. *)

\* ast.Name: the value bound to the name, or "Unknown name"
LookupName(id, e) ==
    IF id \in DOMAIN e.names THEN Ok(e.names[id]) ELSE Err("UnknownName")

AndStepEager(r, rest, e) ==
    IF ~IsOk(r) THEN r
    ELSE IF ~IsOk(rest) THEN rest
    ELSE IF ~Truthy(r.v, e.rec) THEN Ok(BoolV(FALSE))
    ELSE rest

\* one operand of 'and': r is its result, rest the result of the operands after it
AndStep(r, rest, e) ==
    IF ~IsOk(r) THEN r
    ELSE IF ~Truthy(r.v, e.rec) THEN Ok(BoolV(FALSE))
    ELSE rest

\* one operand of 'or'
OrStep(r, rest, e) ==
    IF ~IsOk(r) THEN r
    ELSE IF Truthy(r.v, e.rec) THEN Ok(BoolV(TRUE))
    ELSE rest

\* node kinds that carry an attribute called 'value'
HasValueAttr(sl) == sl.kind \in {"Attribute", "Subscript", "Index"}

\* the node that is evaluated to obtain the key of a subscript with slice sl
KeyNode(sl) == IF HasValueAttr(sl) THEN sl.kids[1] ELSE sl

RECURSIVE _eval_node(_, _)
RECURSIVE EvalAnd(_, _)
RECURSIVE EvalOr(_, _)
RECURSIVE EvalCompare(_, _, _, _)
RECURSIVE EvalList(_, _)

EvalAnd(values, e) ==
    IF values = <<>> THEN Ok(BoolV(TRUE))
    ELSE AndStep(_eval_node(Head(values), e), EvalAnd(Tail(values), e), e)

EvalOr(values, e) ==
    IF values = <<>> THEN Ok(BoolV(FALSE))
    ELSE OrStep(_eval_node(Head(values), e), EvalOr(Tail(values), e), e)

EvalCompare(left, ops, comparators, e) ==
    IF ops = <<>> THEN Ok(BoolV(TRUE))
    ELSE LET right == _eval_node(Head(comparators), e)
         IN  IF ~IsOk(right) THEN right
             ELSE IF Head(ops) \notin _allowed_ops THEN Err("Unsupported")
             ELSE LET c == ApplyCmp(Head(ops), left, right.v)
                  IN  IF ~IsOk(c) THEN c
                      ELSE IF ~Truthy(c.v, e.rec) THEN Ok(BoolV(FALSE))
                      ELSE EvalCompare(right.v, Tail(ops), Tail(comparators), e)

EvalList(elts, e) ==
    IF elts = <<>> THEN Ok(ListV(<<>>))
    ELSE LET h == _eval_node(Head(elts), e)
         IN  IF ~IsOk(h) THEN h
             ELSE LET t == EvalList(Tail(elts), e)
                  IN  IF ~IsOk(t) THEN t ELSE Ok(ListV(<<h.v>> \o t.v.l))

_eval_node(node, e) ==
    CASE node.kind = "Constant" -> Ok(node.c)
      [] node.kind = "Name" -> LookupName(node.id, e)
      [] node.kind = "BinOp" ->
            LET left == _eval_node(node.kids[1], e)
            IN  IF ~IsOk(left) THEN left
                ELSE LET right == _eval_node(node.kids[2], e)
                     IN  IF ~IsOk(right) THEN right
                         ELSE IF node.op \in _allowed_ops
                         THEN ApplyBin(node.op, left.v, right.v)
                         ELSE Err("Unsupported")
      [] node.kind = "UnaryOp" ->
            LET operand == _eval_node(node.kids[1], e)
            IN  IF ~IsOk(operand) THEN operand
                ELSE IF node.op \in _allowed_ops THEN ApplyUnary(node.op, operand.v)
                ELSE Err("Unsupported")
      [] node.kind = "BoolOp" ->
            IF node.op = "And" THEN EvalAnd(node.kids, e)
            ELSE IF node.op = "Or" THEN EvalOr(node.kids, e)
            ELSE Err("Unsupported")
      [] node.kind = "Compare" ->
            LET left == _eval_node(node.kids[1], e)
            IN  IF ~IsOk(left) THEN left
                ELSE EvalCompare(left.v, node.ops, Tail(node.kids), e)
      [] node.kind = "Subscript" ->
            LET val == _eval_node(node.kids[1], e)
                sl  == node.kids[2]
            IN  IF ~IsOk(val) THEN val
                ELSE LET key == IF sl.kind = "Constant" THEN Ok(sl.c)
                                ELSE _eval_node(KeyNode(sl), e)
                     IN  IF ~IsOk(key) THEN key ELSE GetItem(val.v, key.v, e.rec)
      [] node.kind = "List" -> EvalList(node.kids, e)
      [] OTHER -> Err("Unsupported")

safe_eval(src, e, wrap) ==
    IF HasBadSyntax(src) THEN Err("SyntaxError")
    ELSE _eval_node(ParseNode(src, wrap), e)

-----------------------------------------------------------------------------
(* The expressions and environments the evaluator is run on.               *)

MaxOperands == 2   \* operands of and/or, and comparators of a chained comparison

SeqsUpTo(S, lo, hi) == UNION {[1..n -> S] : n \in lo..hi}

\* f(), value.x, 1 & 2, not True, 1 if True else 2, 1 in data
CallF      == Call(Atom("f"), <<>>)
AttrX      == Attribute(Atom("value"), "x")
Disallowed == {CallF, AttrX,
               BinOp(Lit(IntV(1)), "BitAnd", Lit(IntV(2))),
               UnaryOp("Not", Atom("True")),
               IfExp(Atom("True"), Lit(IntV(1)), Lit(IntV(2)))}

Words    == {Atom("True"), Atom("False"), Atom("None"), Atom("false"),
             Atom("undefined_var"), Atom("value"), Atom("data")}
Literals == {Lit(IntV(0)), Lit(IntV(1)), Lit(IntV(2)),
             Lit(StrV(<<"k">>)), Lit(StrV(<<>>))}

\* data['k'], data[value], data[data['k']], data['k' + ''], data[-1], data[[1]]
KeyExprs == {Lit(StrV(<<"k">>)), Lit(StrV(<<"x">>)), Lit(IntV(1)), Atom("value"),
             Atom("undefined_var"), Atom("data"),
             Subscript(Atom("data"), Lit(StrV(<<"k">>))),
             Subscript(Atom("data"), Atom("value")),
             Subscript(Atom("value"), Lit(IntV(0))),
             BinOp(Lit(StrV(<<"k">>)), "Add", Lit(StrV(<<>>))),
             BinOp(Atom("value"), "Add", Lit(StrV(<<>>))),
             UnaryOp("USub", Lit(IntV(1))),
             ListNode(<<Lit(IntV(1))>>),
             Attribute(Atom("value"), "x"), CallF}
Containers == {Atom("data"), Atom("value"), Lit(StrV(<<"k", "j">>)),
               ListNode(<<Lit(StrV(<<"j">>)), Lit(StrV(<<"k">>))>>), Lit(IntV(1))}
Subscripts == {Subscript(c, k) : c \in Containers, k \in KeyExprs}

ArithOperands == {Lit(IntV(0)), Lit(IntV(2)), Lit(IntV(3)), Atom("True"),
                  Subscript(Atom("data"), Lit(StrV(<<"j">>))), Lit(StrV(<<"k">>)), CallF}
Arithmetic == {BinOp(a, op, b) : a \in ArithOperands, b \in ArithOperands,
                                 op \in {"Add", "Sub", "Div", "Mod", "Pow", "BitAnd"}}
              \cup {BinOp(a, "Mult", b) : a \in ArithOperands \ {Lit(StrV(<<"k">>))},
                                          b \in ArithOperands \ {Lit(StrV(<<"k">>))}}
              \cup {UnaryOp(op, a) : a \in ArithOperands, op \in {"UAdd", "USub", "Not"}}

BoolOperands == Words \cup {Lit(IntV(0)), Lit(IntV(1)), Lit(StrV(<<>>)), CallF, AttrX,
                            Subscript(Atom("data"), Lit(StrV(<<"k">>))),
                            BoolOp("And", <<Atom("False"), CallF>>)}
BoolOps == {BoolOp(op, vs) : op \in {"And", "Or"},
                             vs \in SeqsUpTo(BoolOperands, 2, MaxOperands)}

CmpOperands == {Lit(IntV(0)), Lit(IntV(1)), Lit(IntV(2)), CallF}
CmpChoice   == {"Lt", "Eq", "In"}
Compares == {Compare(l, ops, cs) : l \in CmpOperands \cup {Atom("value")},
                                   <<ops, cs>> \in UNION {[1..n -> CmpChoice] \X
                                                          [1..n -> CmpOperands] :
                                                          n \in 1..MaxOperands}}

Lists == {ListNode(es) : es \in SeqsUpTo({Lit(IntV(1)), Atom("value"), CallF}, 0, 2)}

SourceExprs == Words \cup Literals \cup Disallowed \cup Subscripts \cup Arithmetic
               \cup BoolOps \cup Compares \cup Lists \cup {BadSyntax}

FieldNames == {"a", "c", "f", "g", "j", "k", "n", "t", "x", "y"}

Rec(pairs) == [f \in FieldNames |-> IF f \in DOMAIN pairs THEN pairs[f] ELSE Absent]

Pair(f, v) == [x \in {f} |-> v]

\* the environment validate_endpoint builds for a rule on field fld
RuleEnv(fld, rec) ==
    [names |-> [x \in {"value", "data"} |->
                   IF x = "data" THEN DictV
                   ELSE IF fld \in DOMAIN rec /\ rec[fld] # Absent THEN rec[fld]
                   ELSE NoneV],
     rec |-> rec]

SampleRec == Rec(Pair("k", StrV(<<"j">>)) @@ Pair("j", IntV(7)) @@ Pair("a", StrV(<<"k">>)))

EvalEnvs ==
    {RuleEnv("j", SampleRec), RuleEnv("a", SampleRec), RuleEnv("n", Rec(<<>>)),
     \* a caller of safe_eval that binds more names than the rule stage does
     [names |-> [x \in {"value", "data", "false", "undefined_var"} |->
                    CASE x = "data" -> DictV
                      [] x = "value" -> IntV(1)
                      [] x = "false" -> BoolV(FALSE)
                      [] OTHER -> IntV(1)],
      rec |-> SampleRec]}

-----------------------------------------------------------------------------
(* Text: searching, trimming, and the conversions between text and values. *)

Digits == {"0", "1", "2", "3", "4", "5", "6", "7", "8", "9"}
DigitVal(c)  == Ord(c) - Ord("0")
DigitChar(k) == Alphabet[Ord("0") + k]

\* needle in haystack
Contains(hay, needle) ==
    \E k \in 1..(Len(hay) - Len(needle) + 1) :
        SubSeq(hay, k, k + Len(needle) - 1) = needle

RECURSIVE Strip(_)
Strip(s) ==
    IF s = <<>> THEN s
    ELSE IF Head(s) = " " THEN Strip(Tail(s))
    ELSE IF s[Len(s)] = " " THEN Strip(SubSeq(s, 1, Len(s) - 1))
    ELSE s

LowerChar(c) ==
    CASE c = "A" -> "a" [] c = "E" -> "e" [] c = "F" -> "f" [] c = "H" -> "h"
      [] c = "L" -> "l" [] c = "R" -> "r" [] c = "S" -> "s" [] c = "T" -> "t"
      [] c = "U" -> "u" [] c = "W" -> "w" [] OTHER -> c

Lower(s) == [k \in 1..Len(s) |-> LowerChar(s[k])]

RECURSIVE DigitsValue(_)
DigitsValue(s) ==
    IF s = <<>> THEN 0 ELSE 10 * DigitsValue(SubSeq(s, 1, Len(s) - 1)) + DigitVal(s[Len(s)])

AllDigits(s) == \A k \in 1..Len(s) : s[k] \in Digits

Unsigned(s) == IF s # <<>> /\ Head(s) = "-" THEN Tail(s) ELSE s
Sign(s)     == IF s # <<>> /\ Head(s) = "-" THEN -1 ELSE 1

\* int(text): surrounding blanks, an optional sign, then decimal digits
ParseInt(text) ==
    LET body == Unsigned(Strip(text))
    IN  IF body # <<>> /\ AllDigits(body)
        THEN Ok(IntV(Sign(Strip(text)) * DigitsValue(body)))
        ELSE Err("ValueError")

DotAt(s) == CHOOSE k \in 1..Len(s) : s[k] = "."

\* float(text) for text that holds a "."; an exponent is outside the model
ParseFloat(text) ==
    LET body == Unsigned(Strip(text))
        int  == SubSeq(body, 1, DotAt(body) - 1)
        frac == SubSeq(body, DotAt(body) + 1, Len(body))
    IN  IF ~Contains(body, <<".">>) THEN Err("ValueError")
        ELSE IF AllDigits(int) /\ AllDigits(frac) /\ Len(int) + Len(frac) > 0
        THEN Ok(FloatV(Sign(Strip(text)) * DigitsValue(int \o frac), Power(10, Len(frac))))
        ELSE IF \E k \in 1..Len(body) : body[k] \in {"e", "E"} THEN Unmodelled
        ELSE Err("ValueError")

RECURSIVE NatToStr(_)
NatToStr(n) ==
    IF n < 10 THEN <<DigitChar(n)>> ELSE NatToStr(n \div 10) \o <<DigitChar(n % 10)>>

IntToStr(n) == IF n < 0 THEN <<"-">> \o NatToStr(-n) ELSE NatToStr(n)

RECURSIVE PadZeros(_, _)
PadZeros(s, width) == IF Len(s) >= width THEN s ELSE PadZeros(<<"0">> \o s, width)

\* the number of decimals that writes the fraction i/d exactly, or -1
Decimals(d) ==
    IF \E k \in 0..4 : Power(10, k) % d = 0
    THEN CHOOSE k \in 0..4 : Power(10, k) % d = 0 /\ \A j \in 0..(k - 1) : Power(10, j) % d # 0
    ELSE -1

\* repr of a float whose decimal expansion is short
FloatToStr(v) ==
    LET k     == Decimals(v.d)
        scale == Power(10, k)
        whole == Abs(v.i) \div v.d
        part  == (Abs(v.i) * scale) \div v.d - whole * scale
    IN  IF k < 0 \/ whole >= 1000000 THEN Unmodelled
        ELSE Ok(StrV((IF v.i < 0 THEN <<"-">> ELSE <<>>) \o NatToStr(whole) \o <<".">>
                     \o (IF k = 0 THEN <<"0">> ELSE PadZeros(NatToStr(part), k))))

\* str(value), as the template engine writes a value into its output
ToText(v) ==
    CASE v.t = "str"   -> Ok(v)
      [] v.t = "int"   -> Ok(StrV(IntToStr(v.i)))
      [] v.t = "bool"  -> Ok(StrV(IF v.i = 1 THEN <<"T", "r", "u", "e">>
                                  ELSE <<"F", "a", "l", "s", "e">>))
      [] v.t = "none"  -> Ok(StrV(<<"N", "o", "n", "e">>))
      [] v.t = "float" -> FloatToStr(v)
      [] OTHER         -> Unmodelled

-----------------------------------------------------------------------------
(* The template engine (jinja2, strict undefined), for templates made of   *)
(* literal text and {{ name }} placeholders with one-letter names.         *)

Open  == <<"{", "{">>
Close == <<"}", "}">>

\* index of the first occurrence of needle in s at or after position from, or 0
FirstAt(s, needle, from) ==
    LET hits == {k \in from..(Len(s) - Len(needle) + 1) :
                    SubSeq(s, k, k + Len(needle) - 1) = needle}
    IN  IF hits = {} THEN 0 ELSE CHOOSE k \in hits : \A j \in hits : k <= j

RECURSIVE Render(_, _)
Render(t, rec) ==
    IF t = <<>> THEN Ok(StrV(<<>>))
    ELSE IF Len(t) >= 2 /\ SubSeq(t, 1, 2) = Open
    THEN LET close == FirstAt(t, Close, 3)
             inner == Strip(SubSeq(t, 3, close - 1))
             rest  == Render(SubSeq(t, close + 2, Len(t)), rec)
         IN  IF close = 0 THEN Err("TemplateError")
             ELSE IF rest = Unmodelled THEN Unmodelled
             ELSE IF inner = <<>> THEN Err("TemplateError")
             ELSE IF Len(inner) # 1 \/ inner[1] \notin FieldNames THEN Unmodelled
             ELSE IF inner[1] \notin Keys(rec) THEN Err("TemplateError")
             ELSE LET txt == ToText(rec[inner[1]])
                  IN  IF ~IsOk(txt) THEN txt
                      ELSE IF ~IsOk(rest) THEN rest
                      ELSE Ok(StrV(txt.v.s \o rest.v.s))
    ELSE LET rest == Render(Tail(t), rec)
         IN  IF ~IsOk(rest) THEN rest ELSE Ok(StrV(<<Head(t)>> \o rest.v.s))

-----------------------------------------------------------------------------
(* resolve_computed_field, one invocation per step.                        *)

MAX_COMPUTE_DEPTH == 5

Running == [status |-> "running", text |-> <<>>]

DepthExceededLate(d) == d > MAX_COMPUTE_DEPTH + 1

\* the guard at the head of resolve_computed_field
DepthExceeded(d) == d > MAX_COMPUTE_DEPTH

\* whether the rendered text is resolved again
NestedRemain(rendered) == Contains(rendered, Open) /\ Contains(rendered, Close)

ResolveCall ==
    /\ resolved.status = "running"
    /\ pc \in {"resolve", "resolver"}
    /\ calls' = calls + 1
    /\ IF DepthExceeded(depth)
       THEN /\ resolved' = [status |-> "RecursionError", text |-> <<>>]
            /\ UNCHANGED <<tmpl, depth, renders>>
       ELSE LET rendered == Render(tmpl, working)
            IN  /\ renders' = renders + 1
                /\ IF ~IsOk(rendered)
                   THEN /\ resolved' = [status |-> IF rendered.err = "TemplateError"
                                                    THEN "ValueError" ELSE rendered.err,
                                        text |-> <<>>]
                        /\ UNCHANGED <<tmpl, depth>>
                   ELSE IF NestedRemain(rendered.v.s)
                   THEN /\ tmpl' = rendered.v.s
                        /\ depth' = depth + 1
                        /\ UNCHANGED resolved
                   ELSE /\ resolved' = [status |-> "ok", text |-> rendered.v.s]
                        /\ UNCHANGED <<tmpl, depth>>
    /\ UNCHANGED <<evalVars, request, pc, working, compIdx, errors, parsedRules,
                   ruleIdx, response, stagesRun, handled, run, firstResult>>

-----------------------------------------------------------------------------
(* The /validate request and its parts.                                    *)

\* a raw type spec of schema.fields: a bare tag, a record with 'type', or another shape
Tag(t)     == [shape |-> "tag", type |-> t]
TypeRec(t) == [shape |-> "record", type |-> t]
OtherSpec  == [shape |-> "other", type |-> ""]

Field(name, spec)        == [name |-> name, spec |-> spec]
Computed(name, template) == [name |-> name, template |-> template]

Schema(present, keys, fields, computed) ==
    [present |-> present, keys |-> keys, fields |-> fields, computed |-> computed]

RuleKeys     == {"id", "level", "field", "condition", "action"}
RequiredKeys == {"id", "level", "condition", "action"}

RawRule(isDict, keys, id, level, field, condition, action) ==
    [isDict |-> isDict, keys |-> keys, id |-> id, level |-> level, field |-> field,
     condition |-> condition, action |-> action]

\* Rule.parse_obj accepts a mapping that holds every required key
ParseOk(r) == r.isDict /\ RequiredKeys \subseteq r.keys

\* the Rule object built from raw rule r, the origin-th of the request
ParsedRule(r, origin) ==
    [id |-> r.id, level |-> r.level, keys |-> r.keys, field |-> r.field,
     condition |-> r.condition, action |-> r.action, origin |-> origin]

\* an error entry: the keys it holds and their values
Entry(keys, field, rule, message) ==
    [keys |-> keys, field |-> field, rule |-> rule, message |-> message]

Pending == [kind |-> "pending", keys |-> {}, error |-> "", errors |-> <<>>,
            validatedData |-> Rec(<<>>)]
HttpError(status) == [Pending EXCEPT !.kind = status]
ErrorBody(msg)    == [Pending EXCEPT !.kind = "body", !.keys = {"error"}, !.error = msg]
ErrorsBody(es)    == [Pending EXCEPT !.kind = "body", !.keys = {"errors"}, !.errors = es]
ValidatedBody(w)  == [Pending EXCEPT !.kind = "body", !.keys = {"validatedData"},
                                     !.validatedData = w]

-----------------------------------------------------------------------------
(* validate_endpoint.                                                      *)

SchemaRejected(schema) ==
    \/ ~schema.present
    \/ schema.keys = {}
    \/ "version" \notin schema.keys
    \/ "fields" \notin schema.keys

ComputedMap(schema) == IF "computed" \in schema.keys THEN schema.computed ELSE <<>>

\* the 'data' of the payload: the request's own, or on the second run the
\* validatedData returned by the first
SentData == IF run = 1 THEN request.data ELSE firstResult

Admit ==
    /\ pc = "start"
    /\ stagesRun' = stagesRun \cup {"admission"}
    /\ IF SchemaRejected(request.schema)
       THEN /\ response' = HttpError("HTTP400")
            /\ pc' = "done"
            /\ UNCHANGED <<working, compIdx>>
       ELSE /\ working' = SentData
            /\ compIdx' = 1
            /\ pc' = "computed"
            /\ UNCHANGED response
    /\ UNCHANGED <<evalVars, request, tmpl, depth, renders, calls, resolved, errors,
                   parsedRules, ruleIdx, handled, run, firstResult>>

\* the head of the loop over computed_map
NextComputed ==
    /\ pc = "computed"
    /\ stagesRun' = stagesRun \cup {"computed"}
    /\ IF compIdx <= Len(ComputedMap(request.schema))
       THEN /\ tmpl' = ComputedMap(request.schema)[compIdx].template
            /\ depth' = 0
            /\ renders' = 0
            /\ calls' = 0
            /\ resolved' = Running
            /\ pc' = "resolve"
       ELSE /\ pc' = "types"
            /\ UNCHANGED <<tmpl, depth, renders, calls, resolved>>
    /\ UNCHANGED <<evalVars, request, working, compIdx, errors, parsedRules, ruleIdx,
                   response, handled, run, firstResult>>

\* what validate_endpoint returns when the resolver raised
ResolverFailure(status) ==
    IF status = "RecursionError" THEN ErrorBody("Max evaluation depth reached")
    ELSE ErrorsBody(<<Entry({"message"}, "", "", <<"Computed field error", status>>)>>)

StoredNowhere(w, name, text) == w

\* working[comp_name] = resolved
Stored(w, name, text) == [w EXCEPT ![name] = StrV(text)]

\* the body of the loop: the resolver has returned or raised
StoreComputed ==
    /\ pc = "resolve"
    /\ resolved.status # "running"
    /\ IF resolved.status = "ok"
       THEN /\ working' = Stored(working, ComputedMap(request.schema)[compIdx].name,
                                  resolved.text)
            /\ compIdx' = compIdx + 1
            /\ pc' = "computed"
            /\ UNCHANGED response
       ELSE /\ response' = ResolverFailure(resolved.status)
            /\ pc' = "done"
            /\ UNCHANGED <<working, compIdx>>
    /\ UNCHANGED <<evalVars, request, tmpl, depth, renders, calls, resolved, errors,
                   parsedRules, ruleIdx, stagesRun, handled, run, firstResult>>

NormalizeSpec(spec) ==
    IF spec.shape \in {"tag", "record"} THEN spec.type ELSE "string"

type_matches(val, expected) ==
    CASE expected = "string"  -> val.t = "str"
      [] expected = "number"  -> val.t \in {"int", "float", "bool"}
      [] expected = "boolean" -> val.t = "bool"
      [] OTHER                -> FALSE

CoerceAlwaysFloat(val, expected) ==
    IF expected = "number" /\ val.t = "str"
    THEN LET n == IF Contains(val.s, <<".">>) THEN ParseFloat(val.s) ELSE ParseInt(val.s)
         IN  IF IsOk(n) THEN FloatV(n.v.i, n.v.d) ELSE val
    ELSE IF expected = "boolean" /\ val.t = "str"
    THEN LET lower == Lower(Strip(val.s))
         IN  IF lower = <<"t", "r", "u", "e">> THEN BoolV(TRUE)
             ELSE IF lower = <<"f", "a", "l", "s", "e">> THEN BoolV(FALSE)
             ELSE val
    ELSE val

\* the value the field holds after the coercion attempts
Coerce(val, expected) ==
    IF expected = "number" /\ val.t = "str"
    THEN LET n == IF Contains(val.s, <<".">>) THEN ParseFloat(val.s) ELSE ParseInt(val.s)
         IN  IF IsOk(n) THEN n.v ELSE IF n = Unmodelled THEN Val("unmodelled", 0, 1, <<>>, <<>>)
             ELSE val
    ELSE IF expected = "boolean" /\ val.t = "str"
    THEN LET lower == Lower(Strip(val.s))
         IN  IF lower = <<"t", "r", "u", "e">> THEN BoolV(TRUE)
             ELSE IF lower = <<"f", "a", "l", "s", "e">> THEN BoolV(FALSE)
             ELSE val
    ELSE val

TypeName(val) ==
    CASE val.t = "str" -> "str" [] val.t = "int" -> "int" [] val.t = "bool" -> "bool"
      [] val.t = "float" -> "float" [] val.t = "none" -> "NoneType" [] OTHER -> val.t

RECURSIVE CheckFields(_, _, _)
CheckFields(fields, w, errs) ==
    IF fields = <<>> THEN [working |-> w, errors |-> errs]
    ELSE LET fname    == Head(fields).name
             expected == NormalizeSpec(Head(fields).spec)
             val      == Coerce(w[fname], expected)
         IN  IF fname \notin Keys(w) THEN CheckFields(Tail(fields), w, errs)
             ELSE CheckFields(Tail(fields), [w EXCEPT ![fname] = val],
                     IF type_matches(val, expected) THEN errs
                     ELSE Append(errs, Entry({"field", "message"}, fname, "",
                                             <<"expected type", expected, TypeName(val)>>)))

ValidateTypes ==
    /\ pc = "types"
    /\ stagesRun' = stagesRun \cup {"types"}
    /\ LET out == CheckFields(request.schema.fields, working, <<>>)
       IN  /\ working' = out.working
           /\ IF out.errors # <<>>
              THEN /\ response' = ErrorsBody(out.errors)
                   /\ pc' = "done"
                   /\ UNCHANGED <<errors, ruleIdx, parsedRules>>
              ELSE /\ errors' = <<>>
                   /\ parsedRules' = <<>>
                   /\ ruleIdx' = 1
                   /\ pc' = "parse"
                   /\ UNCHANGED response
    /\ UNCHANGED <<evalVars, request, compIdx, tmpl, depth, renders, calls, resolved,
                   handled, run, firstResult>>

\* one turn of the loop that parses the raw rules
ParseRule ==
    /\ pc = "parse"
    /\ stagesRun' = stagesRun \cup {"rules"}
    /\ IF ruleIdx > Len(request.rules)
       THEN /\ pc' = "exec"
            /\ ruleIdx' = 1
            /\ UNCHANGED <<parsedRules, errors, response, handled>>
       ELSE LET r == request.rules[ruleIdx]
            IN  /\ handled' = handled \cup {<<"parse", ruleIdx>>}
                /\ IF ParseOk(r)
                   THEN /\ parsedRules' = Append(parsedRules, ParsedRule(r, ruleIdx))
                        /\ ruleIdx' = ruleIdx + 1
                        /\ UNCHANGED <<errors, response, pc>>
                   ELSE IF ~r.isDict
                   THEN \* r.get raises AttributeError inside the handler
                        /\ response' = HttpError("HTTP500")
                        /\ pc' = "done"
                        /\ UNCHANGED <<parsedRules, errors, ruleIdx>>
                   ELSE /\ errors' = Append(errors,
                               Entry({"rule", "message"}, "",
                                     IF "id" \in r.keys THEN r.id ELSE "<missing>",
                                     <<"Invalid rule definition">>))
                        /\ ruleIdx' = ruleIdx + 1
                        /\ UNCHANGED <<parsedRules, response, pc>>
    /\ UNCHANGED <<evalVars, request, working, compIdx, tmpl, depth, renders, calls,
                   resolved, run, firstResult>>

\* the entries one parsed rule adds to rule_errors
RuleOutcome(r, w, wrap) ==
    LET fld == IF "field" \in r.keys THEN r.field ELSE ""
        res == safe_eval(r.condition, RuleEnv(fld, w), wrap)
    IN  IF r.level # "field" THEN <<>>
        ELSE IF ~IsOk(res)
        THEN <<Entry({"rule", "field", "message"}, fld, r.id, <<"evaluation error", res.err>>)>>
        ELSE IF r.action = "validate" /\ ~Truthy(res.v, w)
        THEN <<Entry({"rule", "field", "message"}, fld, r.id, <<"failed">>)>>
        ELSE <<>>

\* one turn of the loop that executes the parsed rules
ExecRule ==
    /\ pc = "exec"
    /\ IF ruleIdx > Len(parsedRules)
       THEN /\ pc' = "finish"
            /\ UNCHANGED <<errors, ruleIdx, handled>>
       ELSE /\ errors' = errors \o RuleOutcome(parsedRules[ruleIdx], working, sliceWrapped)
            /\ handled' = handled \cup {<<"exec", parsedRules[ruleIdx].origin>>}
            /\ ruleIdx' = ruleIdx + 1
            /\ UNCHANGED pc
    /\ UNCHANGED <<evalVars, request, working, compIdx, tmpl, depth, renders, calls,
                   resolved, parsedRules, response, stagesRun, run, firstResult>>

Finish ==
    /\ pc = "finish"
    /\ response' = IF errors # <<>> THEN ErrorsBody(errors) ELSE ValidatedBody(working)
    /\ pc' = "done"
    /\ UNCHANGED <<evalVars, request, working, compIdx, tmpl, depth, renders, calls,
                   resolved, errors, parsedRules, ruleIdx, stagesRun, handled, run,
                   firstResult>>

\* the caller sends the same schema and rules again, with the validatedData as data
Resubmit ==
    /\ pc = "done"
    /\ run = 1
    /\ response.keys = {"validatedData"}
    /\ run' = 2
    /\ firstResult' = response.validatedData
    /\ response' = Pending
    /\ pc' = "start"
    /\ stagesRun' = {}
    /\ handled' = {}
    /\ errors' = <<>>
    /\ parsedRules' = <<>>
    /\ UNCHANGED <<evalVars, request, working, compIdx, tmpl, depth, renders, calls,
                   resolved, ruleIdx>>

-----------------------------------------------------------------------------
(* The requests the pipeline is run on.                                    *)

MaxRules == 2   \* rules in one request

Alice  == <<"A", "l", "i", "c", "e">>
Wonder == <<"W", "o", "n", "d", "e", "r">>
Ref(x) == <<"{", "{", x, "}", "}">>

FullNameTemplate == Ref("a") \o <<" ">> \o Ref("c")
GreetingTemplate == <<"H", "e", "l", "l", "o", " ">> \o Ref("f")

ComputedChoices ==
    {<<>>,
     <<Computed("f", FullNameTemplate), Computed("g", GreetingTemplate)>>,
     <<Computed("g", GreetingTemplate), Computed("f", FullNameTemplate)>>,
     <<Computed("t", Ref("n"))>>,
     <<Computed("c", Ref("c") \o <<"x">>)>>,
     <<Computed("t", <<"{", "{", " ", "x", " ", "}", "}">>)>>,
     <<Computed("t", <<"{", "{", "a">>)>>,
     <<Computed("t", <<"{", "{", "}", "}">>), Computed("f", Ref("a"))>>}

Data1(f, v)             == Rec(Pair(f, v))
Data2(f1, v1, f2, v2)   == Rec(Pair(f1, v1) @@ Pair(f2, v2))

\* x -> y -> a -> c -> f -> g (-> j): chains of placeholders that end in plain text
Chain(last) ==
    [n \in FieldNames |->
        CASE n = "x" -> StrV(Ref("y")) [] n = "y" -> StrV(Ref("a"))
          [] n = "a" -> StrV(Ref("c")) [] n = "c" -> StrV(Ref("f"))
          [] n = "f" -> StrV(Ref("g"))
          [] n = "g" -> IF last = "g" THEN StrV(<<"o", "k">>) ELSE StrV(Ref("j"))
          [] n = "j" -> IF last = "j" THEN StrV(<<"o", "k">>) ELSE Absent
          [] OTHER -> Absent]

ComputedData ==
    {Data2("a", StrV(Alice), "c", StrV(Wonder)),
     Data1("n", StrV(<<"0", "4", "2">>)),
     Data1("n", StrV(<<"4", ".", "5", "0">>)),
     Data1("n", StrV(<<"4", "2">>)),
     Data1("n", StrV(<<"T", "R", "U", "E">>)),
     Data1("c", StrV(<<"a">>)),
     Data1("x", StrV(Ref("x"))),
     Data2("x", StrV(Ref("y")), "y", StrV(Ref("x"))),
     Data2("x", StrV(Ref("y")), "y", StrV(<<"4", "2">>)),
     Chain("g"), Chain("j"),
     Rec(<<>>)}

FieldChoices ==
    {<<>>,
     <<Field("n", Tag("number"))>>,
     <<Field("n", TypeRec("number"))>>,
     <<Field("n", Tag("boolean"))>>,
     <<Field("n", Tag("string"))>>,
     <<Field("n", OtherSpec)>>,
     <<Field("n", Tag("date"))>>,
     <<Field("t", Tag("number"))>>,
     <<Field("n", Tag("number")), Field("a", Tag("boolean"))>>}

TypeData ==
    {Data1("n", StrV(<<"4", "2">>)),
     Data1("n", StrV(<<" ", "-", "4", "2", " ">>)),
     Data1("n", StrV(<<"4", ".", "5", "0">>)),
     Data1("n", StrV(<<"4", ".">>)),
     Data1("n", StrV(<<"x", ".", "y">>)),
     Data1("n", StrV(<<"x">>)),
     Data1("n", StrV(<<" ", "F", "a", "l", "s", "e">>)),
     Data1("n", BoolV(TRUE)), Data1("n", BoolV(FALSE)),
     Data1("n", IntV(16)), Data1("n", NoneV),
     Data2("n", StrV(<<"x">>), "a", IntV(1)),
     Data2("n", StrV(<<"7">>), "a", StrV(<<"t", "r", "u", "e">>)),
     Rec(<<>>)}

AllKeys == RuleKeys
Cond(l, op, r) == Compare(l, <<op>>, <<r>>)

RAdult   == RawRule(TRUE, AllKeys, "r1", "field", "n",
                    Cond(Atom("value"), "GtE", Lit(IntV(18))), "validate")
RUnknown == RawRule(TRUE, AllKeys, "r2", "field", "n",
                    Cond(Atom("missing"), "Gt", Lit(IntV(0))), "validate")
RPass    == RawRule(TRUE, AllKeys \ {"field"}, "r3", "field", "",
                    Cond(Lit(IntV(1)), "Lt", Lit(IntV(2))), "validate")
RNoCond  == RawRule(TRUE, AllKeys \ {"condition"}, "r4", "field", "n", BadSyntax, "validate")
RNoId    == RawRule(TRUE, AllKeys \ {"id"}, "", "field", "n", Atom("True"), "validate")
RNotDict == RawRule(FALSE, {}, "", "", "", BadSyntax, "")
RRecord  == RawRule(TRUE, AllKeys, "r5", "record", "n", Atom("False"), "validate")
RWarn    == RawRule(TRUE, AllKeys, "r6", "field", "n", Atom("False"), "warn")

RuleChoices == {RAdult, RUnknown, RPass, RNoCond, RNoId, RNotDict, RRecord, RWarn}

Request(schema, rules, data) == [schema |-> schema, rules |-> rules, data |-> data]

GoodSchema(fields, computed) == Schema(TRUE, {"version", "fields", "computed"}, fields, computed)

AdmissionSchemas ==
    LET fields   == <<Field("n", Tag("boolean"))>>
        computed == <<Computed("t", Ref("x"))>>
    IN  {Schema(FALSE, {}, <<>>, <<>>),
         Schema(TRUE, {}, <<>>, <<>>),
         Schema(TRUE, {"fields", "computed"}, fields, computed),
         Schema(TRUE, {"version", "computed"}, <<>>, computed),
         Schema(TRUE, {"version", "fields"}, fields, computed)}

AdmissionRequests ==
    {Request(sc, rs, d) : sc \in AdmissionSchemas, rs \in {<<>>, <<RNotDict>>, <<RUnknown>>},
                          d \in {Data1("n", IntV(16)), Rec(<<>>)}}

ComputedRequests ==
    {Request(GoodSchema(fs, cs), rs, d) :
        fs \in {<<>>, <<Field("n", Tag("number"))>>, <<Field("t", Tag("number"))>>,
                <<Field("n", Tag("boolean"))>>},
        cs \in ComputedChoices, rs \in {<<>>, <<RUnknown>>}, d \in ComputedData}

TypeRequests ==
    {Request(GoodSchema(fs, <<>>), rs, d) :
        fs \in FieldChoices, rs \in {<<>>, <<RAdult>>, <<RNotDict>>}, d \in TypeData}

RuleRequests ==
    {Request(GoodSchema(<<Field("n", Tag("number"))>>, <<>>), rs, d) :
        rs \in SeqsUpTo(RuleChoices, 0, MaxRules),
        d \in {Data1("n", IntV(16)), Data1("n", IntV(25)),
               Data1("n", StrV(<<"3", "0">>)), Rec(<<>>)}}

Requests == AdmissionRequests \cup ComputedRequests \cup TypeRequests \cup RuleRequests

-----------------------------------------------------------------------------
(* Specifications.                                                         *)

IdleEval ==
    /\ expr = BadSyntax
    /\ env = RuleEnv("", Rec(<<>>))
    /\ evalPc = "idle"
    /\ evalResult = Err("")

IdleResolver ==
    /\ tmpl = <<>>
    /\ depth = 0
    /\ renders = 0
    /\ calls = 0
    /\ resolved = Running

IdlePipeline(position) ==
    /\ request = Request(Schema(FALSE, {}, <<>>, <<>>), <<>>, Rec(<<>>))
    /\ pc = position
    /\ compIdx = 1
    /\ errors = <<>>
    /\ parsedRules = <<>>
    /\ ruleIdx = 1
    /\ response = Pending
    /\ stagesRun = {}
    /\ handled = {}
    /\ run = 1
    /\ firstResult = Rec(<<>>)

\* the pipeline: one request, handled to its response, then possibly sent again
Init ==
    /\ sliceWrapped \in BOOLEAN
    /\ IdleEval
    /\ IdleResolver
    /\ request \in Requests
    /\ pc = "start"
    /\ working = Rec(<<>>)
    /\ compIdx = 1
    /\ errors = <<>>
    /\ parsedRules = <<>>
    /\ ruleIdx = 1
    /\ response = Pending
    /\ stagesRun = {}
    /\ handled = {}
    /\ run = 1
    /\ firstResult = Rec(<<>>)

Next ==
    \/ Admit
    \/ NextComputed
    \/ ResolveCall
    \/ StoreComputed
    \/ ValidateTypes
    \/ ParseRule
    \/ ExecRule
    \/ Finish
    \/ Resubmit

Spec == Init /\ [][Next]_vars

\* safe_eval called once on an expression
Evaluate ==
    /\ evalPc = "ready"
    /\ evalResult' = safe_eval(expr, env, sliceWrapped)
    /\ evalPc' = "done"
    /\ UNCHANGED <<sliceWrapped, expr, env, pipeVars>>

InitEval ==
    /\ sliceWrapped \in BOOLEAN
    /\ expr \in SourceExprs
    /\ env \in EvalEnvs
    /\ evalPc = "ready"
    /\ evalResult = Err("")
    /\ IdleResolver
    /\ IdlePipeline("idle")
    /\ working = Rec(<<>>)

SpecEval == InitEval /\ [][Evaluate]_vars

\* resolve_computed_field called at depth 0 on a template and a data mapping
ResolverTemplates ==
    UNION {{c[k].template : k \in 1..Len(c)} : c \in ComputedChoices} \cup {Ref("g"), Ref("y")}

InitResolve ==
    /\ sliceWrapped = FALSE
    /\ IdleEval
    /\ IdlePipeline("resolver")
    /\ working \in ComputedData
    /\ tmpl \in ResolverTemplates
    /\ depth = 0
    /\ renders = 0
    /\ calls = 0
    /\ resolved = Running

SpecResolve == InitResolve /\ [][ResolveCall]_vars /\ WF_vars(ResolveCall)

-----------------------------------------------------------------------------
(* Vocabulary of the properties.                                           *)

Done == pc = "done"

ResolverFailed == resolved.status \notin {"running", "ok"}

\* the stage an error entry comes from, read off the keys it carries
StageOf(e) ==
    IF "rule" \in e.keys THEN "rules" ELSE IF "field" \in e.keys THEN "types" ELSE "computed"

\* the source expression holds a construct outside the closed grammar
RECURSIVE ContainsDisallowed(_)
ContainsDisallowed(src) ==
    \/ src.kind \notin {"Atom", "Lit", "BinOp", "UnaryOp", "BoolOp", "Compare",
                        "Subscript", "List"}
    \/ src.kind = "BinOp" /\ src.op \notin BinOps
    \/ src.kind = "UnaryOp" /\ src.op \notin UnaryOps
    \/ src.kind = "BoolOp" /\ src.op \notin {"And", "Or"}
    \/ src.kind = "Compare" /\ \E k \in 1..Len(src.ops) : src.ops[k] \notin CmpOps
    \/ \E k \in 1..Len(src.kids) : ContainsDisallowed(src.kids[k])

\* the names a template's placeholders refer to
Refs(template) ==
    {x \in FieldNames : Contains(template, Ref(x))
                        \/ Contains(template, <<"{", "{", " ", x, " ", "}", "}">>)}

\* the entries the rule stage owes for one raw rule
Owed(r, w, wrap) ==
    IF ~ParseOk(r) THEN 1
    ELSE IF r.level # "field" THEN 0
    ELSE LET res == safe_eval(r.condition,
                              RuleEnv(IF "field" \in r.keys THEN r.field ELSE "", w), wrap)
         IN  IF ~IsOk(res) \/ (r.action = "validate" /\ ~Truthy(res.v, w)) THEN 1 ELSE 0

RECURSIVE OwedTotal(_, _, _)
OwedTotal(rules, w, wrap) ==
    IF rules = <<>> THEN 0 ELSE Owed(Head(rules), w, wrap) + OwedTotal(Tail(rules), w, wrap)

FalseAndUndefined == BoolOp("And", <<Atom("false"), Atom("undefined_var")>>)
PyFalseAndUndefined == BoolOp("And", <<Atom("False"), Atom("undefined_var")>>)

FortyTwo == <<"4", "2">>

ChainExample ==
    /\ ComputedMap(request.schema) =
           <<Computed("f", FullNameTemplate), Computed("g", GreetingTemplate)>>
    /\ request.data = Data2("a", StrV(Alice), "c", StrV(Wonder))
    /\ run = 1

-----------------------------------------------------------------------------
(* Properties.                                                             *)

\* C1: every request ends in exactly one outcome - a protocol-level rejection,
\* one stage's errors, or the working record under validatedData - never a crash
\* and never errors of two stages; a rejected schema stops before any field is
\* processed, a resolver failure before any type check, type mismatches before
\* any rule is parsed.
C1_OneOutcomeFirstFailingStage ==
    Done =>
        /\ response.kind \in {"HTTP400", "body"}
        /\ response.kind = "body" => Cardinality(response.keys) = 1
        /\ \A i, j \in 1..Len(response.errors) :
               StageOf(response.errors[i]) = StageOf(response.errors[j])
        /\ SchemaRejected(request.schema) <=> response.kind = "HTTP400"
        /\ response.kind = "HTTP400" => stagesRun = {"admission"}
        /\ ResolverFailed =>
               /\ stagesRun = {"admission", "computed"}
               /\ response.keys \in {{"error"}, {"errors"}}
        /\ (\E i \in 1..Len(response.errors) : StageOf(response.errors[i]) = "types") =>
               /\ "rules" \notin stagesRun
               /\ handled = {}
        /\ response.keys = {"validatedData"} =>
               /\ response.validatedData = working
               /\ errors = <<>>

\* C2: once type validation has run, a field declared 'number' that holds a
\* boolean has been reported as a type mismatch and the pipeline has returned
\* the collection of type errors.
C2_BooleanNeverNumber ==
    "types" \in stagesRun =>
        \A k \in 1..Len(request.schema.fields) :
            LET f == request.schema.fields[k]
            IN  (NormalizeSpec(f.spec) = "number" /\ working[f.name].t = "bool") =>
                    /\ Done
                    /\ response.keys = {"errors"}
                    /\ \E i \in 1..Len(response.errors) :
                           /\ StageOf(response.errors[i]) = "types"
                           /\ response.errors[i].field = f.name

\* C3: an expression that holds a disallowed construct anywhere - in an operand
\* of and/or, in a later pair of a chained comparison, in a subscript key - is
\* rejected: safe_eval never returns a value for it.
C3_DisallowedNeverYieldsValue ==
    (evalPc = "done" /\ ContainsDisallowed(expr)) => ~IsOk(evalResult)

\* C4: a resolution started at depth 0 ends; it renders at most
\* MAX_COMPUTE_DEPTH + 1 = 6 times, the next invocation only raises, and when
\* every one of the 6 renders still holds '{{' and '}}' it ends in the
\* max-depth error.
C4_DepthGuardTerminates ==
    /\ [](/\ renders <= MAX_COMPUTE_DEPTH + 1
          /\ calls <= renders + 1
          /\ resolved.status = "RecursionError" =>
                 (renders = MAX_COMPUTE_DEPTH + 1 /\ calls = renders + 1)
          /\ (depth > MAX_COMPUTE_DEPTH /\ resolved.status # "running") =>
                 resolved.status = "RecursionError")
    /\ <>(resolved.status # "running")

C4_Witness ==
    /\ pc = "resolver"
    /\ working["x"] = StrV(Ref("x"))
    /\ tmpl = Ref("x")
    /\ renders = MAX_COMPUTE_DEPTH + 1
    /\ resolved.status = "RecursionError"

\* C5: every rule of the list is parsed, every parsed rule is executed, and the
\* rule stage returns one entry for each rule that is malformed, fails to
\* evaluate or is falsy under 'validate', and none for the others; a rule that
\* raises followed by a rule that passes gives one entry, with the first rule's id.
C5_RuleIsolation ==
    (Done /\ "rules" \in stagesRun) =>
        /\ \A k \in 1..Len(request.rules) :
               /\ <<"parse", k>> \in handled
               /\ ParseOk(request.rules[k]) => <<"exec", k>> \in handled
        /\ Len(response.errors) = OwedTotal(request.rules, working, sliceWrapped)
        /\ request.rules = <<RUnknown, RPass>> =>
               /\ Len(response.errors) = 1
               /\ response.errors[1].rule = RUnknown.id

\* C6: a resolver failure of either kind is returned as a collection of exactly
\* one error entry that holds a 'message' and at most 'field' and 'rule'.
C6_ResolverFailureUniformShape ==
    (Done /\ ResolverFailed) =>
        /\ response.keys = {"errors"}
        /\ Len(response.errors) = 1
        /\ "message" \in response.errors[1].keys
        /\ response.errors[1].keys \subseteq {"field", "rule", "message"}

C8_LowercaseFalseShortCircuits ==
    (evalPc = "done" /\ expr = FalseAndUndefined
     /\ "undefined_var" \notin DOMAIN env.names) =>
        /\ IsOk(evalResult)
        /\ ~Truthy(evalResult.v, env.rec)

\* C8, amended: once an operand of 'and' is falsy, or an operand of 'or' truthy,
\* the result is decided whatever the later operands are; so "False and
\* undefined_var", spelled with the literal False, gives False without an
\* unknown-variable error (the word false is a variable like any other).
C8_ShortCircuit ==
    (evalPc = "done" /\ expr.kind = "BoolOp" /\ expr.op \in {"And", "Or"}) =>
        LET r(j) == safe_eval(expr.kids[j], env, sliceWrapped)
            goesOn(j) == IsOk(r(j)) /\ (Truthy(r(j).v, env.rec) <=> expr.op = "And")
            decides(j) == IsOk(r(j)) /\ (Truthy(r(j).v, env.rec) <=> expr.op = "Or")
        IN  \A k \in 1..Len(expr.kids) :
                ((\A j \in 1..(k - 1) : goesOn(j)) /\ decides(k)) =>
                    evalResult = Ok(BoolV(expr.op = "Or"))

C8_Witness ==
    /\ evalPc = "done"
    /\ expr = PyFalseAndUndefined
    /\ "undefined_var" \notin DOMAIN env.names
    /\ evalResult = Ok(BoolV(FALSE))

\* C9: computed fields are resolved in the order of the map and each result is
\* in the working record before the next template is rendered: the fields
\* before the current one are stored, a template resolves only if every name
\* it refers to is in the record by then, the fullName/greeting example ends
\* with both texts, and a failed resolution never yields validatedData.
C9_ComputedChaining ==
    /\ pc = "resolve" =>
           \A j \in 1..(compIdx - 1) :
               ComputedMap(request.schema)[j].name \in Keys(working)
    /\ (pc = "resolve" /\ resolved.status = "ok") =>
           Refs(ComputedMap(request.schema)[compIdx].template) \subseteq Keys(working)
    /\ (pc = "types" /\ ChainExample) =>
           /\ working["f"] = StrV(Alice \o <<" ">> \o Wonder)
           /\ working["g"] = StrV(<<"H", "e", "l", "l", "o", " ">> \o Alice \o <<" ">> \o Wonder)
    /\ (Done /\ ResolverFailed) => response.keys # {"validatedData"}

C9_Witness ==
    /\ pc = "types"
    /\ ChainExample
    /\ working["g"] = StrV(<<"H", "e", "l", "l", "o", " ">> \o Alice \o <<" ">> \o Wonder)

\* C10: expr[key] gives the container indexed by the value of the whole key
\* expression.
C10_SubscriptKeyEvaluatedWhole ==
    (evalPc = "done" /\ expr.kind = "Subscript") =>
        LET container == safe_eval(expr.kids[1], env, sliceWrapped)
            key       == safe_eval(expr.kids[2], env, sliceWrapped)
        IN  (IsOk(container) /\ IsOk(key)) =>
                evalResult = GetItem(container.v, key.v, env.rec)

====
